---- MODULE Spec2Model ----
(***************************************************************************)
(* Model of src/main.py: fetch_data (bounded retry loop), validate_product *)
(* (field coercion and defaults), save_to_csv, show_statistics and main.   *)
(*                                                                         *)
(* JSON / Python values are tagged records:                                *)
(*   Absent            the key is missing from the dict                    *)
(*   Null              JSON null / Python None                             *)
(*   PyInt(n)          an int                                              *)
(*   PyFloat(n)        a float, n in thousandths (10.5 is PyFloat(10500))  *)
(*   Str(txt,l,n,r)    a string: l leading blanks, n characters of text    *)
(*                     txt, r trailing blanks                              *)
(*   Map(rate,count)   a dict with the optional keys rate and count        *)
(***************************************************************************)
EXTENDS Integers, Sequences, FiniteSets, TLC

VARIABLES
    pc,           \* position in main / fetch_data / save_to_csv
    entry,        \* which function the run calls: "main", "save_to_csv", "validate_product"
    retries,      \* args.retries
    noStats,      \* args.no_stats
    fault,        \* whether open(output_file, 'w') raises PermissionError
    attempt,      \* loop variable of fetch_data
    gets,         \* number of requests.get calls issued
    sleeps,       \* number of time.sleep calls
    events,       \* the order of the gets and sleeps
    resps,        \* what each requests.get ended in
    outcome,      \* the return path fetch_data took
    products,     \* the value fetch_data returned / save_to_csv received
    file,         \* the output file
    file0,        \* the output file before the run
    idx,          \* loop index of save_to_csv
    opened,       \* open(output_file, 'w') was executed
    saveCalled,   \* save_to_csv was called
    saveRet,      \* what save_to_csv returned
    statsPrinted, \* show_statistics printed its report
    crashed,      \* an exception left main
    exitCode,     \* the process exit code, -1 while running
    cur,          \* the argument of the last validate_product call
    clean         \* the result of the last validate_product call

vars == <<pc, entry, retries, noStats, fault, attempt, gets, sleeps, events, resps,
          outcome, products, file, file0, idx, opened, saveCalled, saveRet,
          statsPrinted, crashed, exitCode, cur, clean>>

(* ------------------------------ bounds -------------------------------- *)
MaxRetries == 3
MaxItems == 2

(* --------------------------- program constants ------------------------ *)
TitleMax == 100
DescMax == 200

(* ------------------------------- values ------------------------------- *)
Min(a, b) == IF a < b THEN a ELSE b
Max(a, b) == IF a > b THEN a ELSE b
Last(s) == s[Len(s)]

Absent == [t |-> "absent"]
Null == [t |-> "null"]
PyInt(n) == [t |-> "int", n |-> n]
PyFloat(n) == [t |-> "float", n |-> n]
Str(txt, l, n, r) == [t |-> "str", txt |-> txt, lead |-> l, len |-> n, trail |-> r]
Map(rate, count) == [t |-> "map", rate |-> rate, count |-> count]

NA == Str("N/A", 0, 3, 0)
EmptyDict == Map(Absent, Absent)

\* dict.get(key, default) on a product dict
DictGet(d, key, default) == IF d[key] = Absent THEN default ELSE d[key]

\* str(v)
PyStr(v) ==
    CASE v.t = "str" -> v
      [] v.t = "null" -> Str("None", 0, 4, 0)
      [] OTHER -> Str("repr", 0, 4, 0)

\* s.strip()
Strip(s) == [s EXCEPT !.lead = 0, !.trail = 0]

\* s[:n]
Slice(s, n) ==
    LET l == Min(s.lead, n)
        m == Min(s.len, n - l)
        r == Min(s.trail, n - l - m)
    IN  [s EXCEPT !.lead = l, !.len = m, !.trail = r]

\* the float a string denotes, in thousandths; -1 when float(s) raises ValueError
ParseFloat(txt) == IF txt = "10.5" THEN 10500 ELSE -1

\* float(v): [exc, val]
ToFloat(v) ==
    CASE v.t = "float" -> [exc |-> "none", val |-> v]
      [] v.t = "int" -> [exc |-> "none", val |-> PyFloat(v.n * 1000)]
      [] v.t = "str" ->
            IF ParseFloat(v.txt) >= 0
            THEN [exc |-> "none", val |-> PyFloat(ParseFloat(v.txt))]
            ELSE [exc |-> "ValueError", val |-> Absent]
      [] OTHER -> [exc |-> "TypeError", val |-> Absent]

\* product.get("rating", {}).get(key, default): [exc, val]
RatingGet(rating, key, default) ==
    IF rating.t # "map"
    THEN [exc |-> "AttributeError", val |-> Absent]
    ELSE [exc |-> "none", val |-> IF rating[key] = Absent THEN default ELSE rating[key]]

NoClean ==
    [title |-> Absent, price |-> Absent, category |-> Absent, description |-> Absent,
     image |-> Absent, rating |-> Absent, rating_count |-> Absent]

\* validate_product(product): [exc, rec]; the dict display is evaluated in key order
validate_product(product) ==
    LET price == ToFloat(DictGet(product, "price", PyInt(0)))
        rate == RatingGet(DictGet(product, "rating", EmptyDict), "rate", PyInt(0))
        count == RatingGet(DictGet(product, "rating", EmptyDict), "count", PyInt(0))
    IN  IF price.exc # "none" THEN [exc |-> price.exc, rec |-> NoClean]
        ELSE IF rate.exc # "none" THEN [exc |-> rate.exc, rec |-> NoClean]
        ELSE IF count.exc # "none" THEN [exc |-> count.exc, rec |-> NoClean]
        ELSE [exc |-> "none",
              rec |-> [title |-> Slice(Strip(PyStr(DictGet(product, "title", NA))), TitleMax),
                       price |-> price.val,
                       category |-> Strip(PyStr(DictGet(product, "category", NA))),
                       description |->
                           Slice(Strip(PyStr(DictGet(product, "description", NA))), DescMax),
                       image |-> Strip(PyStr(DictGet(product, "image", NA))),
                       rating |-> rate.val,
                       rating_count |-> count.val]]

(* ------------------------------- inputs ------------------------------- *)
Text == Str("x", 1, 3, 1)

Titles == {Absent, Null, Text, Str("x", 0, 150, 0)}
Prices == {Absent, Null, PyFloat(20250), PyInt(7), Str("10.5", 0, 4, 0), Str("abc", 0, 3, 0)}
Categories == {Absent, Text}
Descriptions == {Absent, Str("x", 0, 300, 1)}
Images == {Absent, Text}
Ratings == {Absent, Null, PyInt(5)}
             \cup {Map(r, c) : r \in {Absent, PyFloat(3900)}, c \in {Absent, PyInt(120)}}

RawRecords ==
    [title : Titles, price : Prices, category : Categories,
     description : Descriptions, image : Images, rating : Ratings]

EmptyRecord ==
    [title |-> Absent, price |-> Absent, category |-> Absent, description |-> Absent,
     image |-> Absent, rating |-> Absent]

\* the records the endpoint serves in the pipeline runs: complete but for the price
PipeRecords ==
    {[title |-> Text, price |-> p, category |-> Text, description |-> Absent,
      image |-> Text, rating |-> Map(PyFloat(3900), PyInt(120))] :
        p \in {PyFloat(20250), Str("10.5", 0, 4, 0), Str("abc", 0, 3, 0)}}

Bodies == UNION {[1..n -> PipeRecords] : n \in 0..MaxItems}

(* -------------------------------- files -------------------------------- *)
\* f"${price:.2f}": the price rounded to cents behind a dollar sign
FormatPrice(p) == [t |-> "money", cents |-> (p.n + 5) \div 10]

\* the list handed to writer.writerow (lines 147-155)
Row(rec) ==
    [title |-> rec.title, price |-> FormatPrice(rec.price), category |-> rec.category,
     description |-> rec.description, image |-> rec.image, rating |-> rec.rating,
     rating_count |-> rec.rating_count]

NoFile == [exists |-> FALSE, header |-> FALSE, rows |-> <<>>]
OldFile ==
    [exists |-> TRUE, header |-> TRUE,
     rows |-> <<Row([title |-> Strip(Text), price |-> PyFloat(1000), category |-> NA,
                     description |-> NA, image |-> NA, rating |-> PyInt(0),
                     rating_count |-> PyInt(0)])>>]
Files == {NoFile, OldFile}

\* open(output_file, 'w') followed by writer.writerow(headers)
Truncated == [exists |-> TRUE, header |-> TRUE, rows |-> <<>>]

(* ------------------------------ fetch_data ---------------------------- *)
None == [isNone |-> TRUE, items |-> <<>>]
List(items) == [isNone |-> FALSE, items |-> items]

RecoverableKinds == {"timeout", "connection"}
TerminalKinds == {"http_error", "bad_json", "other"}

Resp(kind, body) == [kind |-> kind, body |-> body]

\* for attempt in range(1, retries + 1)
InRangeShort(a, r) == a < r
InRangeLong(a, r) == a <= r + 1
InRange(a, r) == a <= r

\* the except clauses that fall through to the end of the loop body
CaughtAndRetriedAll(kind) == kind \in RecoverableKinds \cup {"http_error"}
CaughtAndRetried(kind) == kind \in {"timeout", "connection"}

\* if attempt < retries
ShouldSleepAlways(a, r) == a <= r
ShouldSleep(a, r) == a < r

\* data = response.json(); return data
ParsedDropFirst(r) == List(IF r.body = <<>> THEN <<>> ELSE Tail(r.body))
Parsed(r) == List(r.body)

FetchVars == <<attempt, gets, sleeps, events, resps, outcome>>
SaveVars == <<file, idx, opened, saveCalled, saveRet, cur, clean>>
MainVars == <<statsPrinted, crashed, exitCode>>
Args == <<entry, retries, noStats, fault, file0>>

\* main calls fetch_data; the for loop starts
FetchCall ==
    /\ pc = "main"
    /\ pc' = "loop"
    /\ attempt' = 1
    /\ UNCHANGED <<gets, sleeps, events, resps, outcome, products>>
    /\ UNCHANGED <<SaveVars, MainVars, Args>>

\* the loop has another attempt to make
LoopNext ==
    /\ pc = "loop"
    /\ InRange(attempt, retries)
    /\ pc' = "get"
    /\ UNCHANGED <<FetchVars, products, SaveVars, MainVars, Args>>

\* the loop is over: "All retry attempts failed", return None
Exhausted ==
    /\ pc = "loop"
    /\ ~InRange(attempt, retries)
    /\ outcome' = "exhausted"
    /\ products' = None
    /\ pc' = "fetch_ret"
    /\ UNCHANGED <<attempt, gets, sleeps, events, resps>>
    /\ UNCHANGED <<SaveVars, MainVars, Args>>

\* requests.get answers 2xx with a JSON array: return data
GetOk ==
    /\ pc = "get"
    /\ \E body \in Bodies :
          /\ resps' = Append(resps, Resp("ok", body))
          /\ products' = Parsed(Resp("ok", body))
    /\ gets' = gets + 1
    /\ events' = Append(events, "get")
    /\ outcome' = "success"
    /\ pc' = "fetch_ret"
    /\ UNCHANGED <<attempt, sleeps>>
    /\ UNCHANGED <<SaveVars, MainVars, Args>>

\* requests.get raises; the except clause decides between retry and return None
GetError ==
    /\ pc = "get"
    /\ \E kind \in RecoverableKinds \cup TerminalKinds :
          /\ resps' = Append(resps, Resp(kind, <<>>))
          /\ IF CaughtAndRetried(kind)
             THEN /\ pc' = "backoff"
                  /\ UNCHANGED <<outcome, products>>
             ELSE /\ pc' = "fetch_ret"
                  /\ outcome' = "terminal"
                  /\ products' = None
    /\ gets' = gets + 1
    /\ events' = Append(events, "get")
    /\ UNCHANGED <<attempt, sleeps>>
    /\ UNCHANGED <<SaveVars, MainVars, Args>>

\* the end of the loop body: sleep if attempts remain, then the next iteration
Backoff ==
    /\ pc = "backoff"
    /\ IF ShouldSleep(attempt, retries)
       THEN /\ sleeps' = sleeps + 1
            /\ events' = Append(events, "sleep")
       ELSE UNCHANGED <<sleeps, events>>
    /\ attempt' = attempt + 1
    /\ pc' = "loop"
    /\ UNCHANGED <<gets, resps, outcome, products>>
    /\ UNCHANGED <<SaveVars, MainVars, Args>>

(* ----------------------------- save_to_csv ---------------------------- *)
\* if not products
NoProducts(p) == p.isNone \/ p.items = <<>>

\* the guard at the top of save_to_csv
SaveCheck ==
    /\ pc = "save"
    /\ IF NoProducts(products)
       THEN /\ saveRet' = "false"
            /\ pc' = "save_ret"
       ELSE /\ pc' = "open"
            /\ UNCHANGED saveRet
    /\ UNCHANGED <<FetchVars, products, MainVars, Args>>
    /\ UNCHANGED <<file, idx, opened, saveCalled, cur, clean>>

\* open(output_file, 'w') and the header row, or PermissionError
SaveOpen ==
    /\ pc = "open"
    /\ opened' = TRUE
    /\ IF fault
       THEN /\ saveRet' = "false"
            /\ pc' = "save_ret"
            /\ UNCHANGED <<file, idx>>
       ELSE /\ file' = Truncated
            /\ idx' = 1
            /\ pc' = "row"
            /\ UNCHANGED saveRet
    /\ UNCHANGED <<FetchVars, products, MainVars, Args>>
    /\ UNCHANGED <<saveCalled, cur, clean>>

\* one iteration of the for loop: validate_product, then writer.writerow; an
\* exception of validate_product closes the file and returns False
SaveRow ==
    /\ pc = "row"
    /\ idx <= Len(products.items)
    /\ cur' = products.items[idx]
    /\ clean' = validate_product(products.items[idx])
    /\ IF clean'.exc # "none"
       THEN /\ saveRet' = "false"
            /\ pc' = "save_ret"
            /\ UNCHANGED <<file, idx>>
       ELSE /\ file' = [file EXCEPT !.rows = Append(@, Row(clean'.rec))]
            /\ idx' = idx + 1
            /\ UNCHANGED <<pc, saveRet>>
    /\ UNCHANGED <<FetchVars, products, MainVars, Args>>
    /\ UNCHANGED <<opened, saveCalled>>

\* the loop is over: the file is closed, return True
SaveDone ==
    /\ pc = "row"
    /\ idx > Len(products.items)
    /\ saveRet' = "true"
    /\ pc' = "save_ret"
    /\ UNCHANGED <<FetchVars, products, MainVars, Args>>
    /\ UNCHANGED <<file, idx, opened, saveCalled, cur, clean>>

\* save_to_csv returns to a caller other than main
SaveReturn ==
    /\ pc = "save_ret"
    /\ entry = "save_to_csv"
    /\ pc' = "done"
    /\ UNCHANGED <<FetchVars, products, SaveVars, MainVars, Args>>

(* --------------------------- show_statistics -------------------------- *)
\* min/max/sum of the raw prices and the :.2f formats raise unless every price
\* is a number
StatsRaises(items) ==
    \E i \in 1..Len(items) : DictGet(items[i], "price", PyInt(0)).t \notin {"int", "float"}

(* --------------------------------- main -------------------------------- *)
\* if products
TruthyNotNone(p) == ~p.isNone
Truthy(p) == ~p.isNone /\ p.items # <<>>

\* if products: save_to_csv(products, args.output)
MainAfterFetch ==
    /\ pc = "fetch_ret"
    /\ IF Truthy(products)
       THEN /\ pc' = "save"
            /\ saveCalled' = TRUE
       ELSE /\ pc' = "fail"
            /\ UNCHANGED saveCalled
    /\ UNCHANGED <<FetchVars, products, MainVars, Args>>
    /\ UNCHANGED <<file, idx, opened, saveRet, cur, clean>>

\* if save_to_csv(...): statistics unless --no-stats, then return 0
MainAfterSave ==
    /\ pc = "save_ret"
    /\ entry = "main"
    /\ IF saveRet = "true"
       THEN IF noStats
            THEN /\ exitCode' = 0
                 /\ pc' = "done"
            ELSE /\ pc' = "stats"
                 /\ UNCHANGED exitCode
       ELSE /\ pc' = "fail"
            /\ UNCHANGED exitCode
    /\ UNCHANGED <<FetchVars, products, SaveVars, Args, statsPrinted, crashed>>

\* show_statistics(products), then return 0; an exception of show_statistics
\* leaves main uncaught and the interpreter exits with status 1
ShowStatistics ==
    /\ pc = "stats"
    /\ IF StatsRaises(products.items)
       THEN /\ crashed' = TRUE
            /\ exitCode' = 1
            /\ UNCHANGED statsPrinted
       ELSE /\ statsPrinted' = TRUE
            /\ exitCode' = 0
            /\ UNCHANGED crashed
    /\ pc' = "done"
    /\ UNCHANGED <<FetchVars, products, SaveVars, Args>>

\* "Scraping failed!", return 1
MainFail ==
    /\ pc = "fail"
    /\ exitCode' = 1
    /\ pc' = "done"
    /\ UNCHANGED <<FetchVars, products, SaveVars, Args, statsPrinted, crashed>>

(* --------------------------- validate_product ------------------------- *)
\* a call of validate_product on its own
ValidateCall ==
    /\ pc = "validate"
    /\ clean' = validate_product(cur)
    /\ pc' = "done"
    /\ UNCHANGED <<FetchVars, products, MainVars, Args>>
    /\ UNCHANGED <<file, idx, opened, saveCalled, saveRet, cur>>

(* ---------------------------- specification --------------------------- *)
Unset == [exc |-> "unset", rec |-> NoClean]

Idle ==
    /\ attempt = 0 /\ gets = 0 /\ sleeps = 0 /\ events = <<>> /\ resps = <<>>
    /\ outcome = "none" /\ idx = 0 /\ opened = FALSE /\ saveRet = "none"
    /\ statsPrinted = FALSE /\ crashed = FALSE /\ exitCode = -1 /\ clean = Unset

\* python main.py --retries R [--no-stats]: argparse accepts any int for --retries
InitMain ==
    /\ entry = "main" /\ pc = "main"
    /\ retries \in {-1} \cup (0..MaxRetries)
    /\ noStats \in BOOLEAN
    /\ fault \in BOOLEAN
    /\ file0 \in Files /\ file = file0
    /\ products = None /\ saveCalled = FALSE /\ cur = EmptyRecord
    /\ Idle

\* save_to_csv(products, output_file) called with any list
InitSave ==
    /\ entry = "save_to_csv" /\ pc = "save"
    /\ retries = 0 /\ noStats = FALSE
    /\ fault \in BOOLEAN
    /\ file0 \in Files /\ file = file0
    /\ \E items \in Bodies : products = List(items)
    /\ saveCalled = TRUE /\ cur = EmptyRecord
    /\ Idle

\* validate_product(product) called with any raw record
InitValidate ==
    /\ entry = "validate_product" /\ pc = "validate"
    /\ retries = 0 /\ noStats = FALSE /\ fault = FALSE
    /\ file0 = NoFile /\ file = file0
    /\ products = None /\ saveCalled = FALSE
    /\ cur \in RawRecords
    /\ Idle

Init == InitMain \/ InitSave \/ InitValidate

Next ==
    \/ FetchCall \/ LoopNext \/ Exhausted \/ GetOk \/ GetError \/ Backoff
    \/ MainAfterFetch \/ SaveCheck \/ SaveOpen \/ SaveRow \/ SaveDone \/ SaveReturn
    \/ MainAfterSave \/ ShowStatistics \/ MainFail \/ ValidateCall

Spec == Init /\ [][Next]_vars

\* the program is sequential: every step that can be taken is taken (each
\* requests.get returns or raises within its timeout, each sleep ends)
FairSpec == Spec /\ WF_vars(Next)

TypeOK ==
    /\ pc \in {"main", "loop", "get", "backoff", "fetch_ret", "save", "open", "row",
               "save_ret", "stats", "fail", "validate", "done"}
    /\ outcome \in {"none", "success", "terminal", "exhausted"}
    /\ saveRet \in {"none", "true", "false"}
    /\ exitCode \in {-1, 0, 1}
    /\ gets \in Nat /\ sleeps \in Nat /\ attempt \in Nat

(* ------------------------------- claims -------------------------------- *)
FetchReturned == outcome # "none"
InFetch == entry = "main" /\ pc \in {"loop", "get", "backoff", "fetch_ret"}
AllRecoverable == \A i \in 1..Len(resps) : resps[i].kind \in RecoverableKinds

\* n gets with one sleep between each two of them
Alternating(ev, n) ==
    /\ Len(ev) = 2 * n - 1
    /\ \A i \in 1..Len(ev) : ev[i] = (IF i % 2 = 1 THEN "get" ELSE "sleep")

\* C1: with retries = N >= 1 and only timeouts / connection errors, fetch_data
\* returns after exactly N gets and N-1 sleeps, each sleep between two gets and
\* none after the last get, and it returns None.
C1_ExhaustsAfterN ==
    (entry = "main" /\ retries >= 1 /\ FetchReturned /\ AllRecoverable) =>
        /\ gets = retries
        /\ Len(resps) = retries
        /\ sleeps = retries - 1
        /\ Alternating(events, retries)
        /\ outcome = "exhausted"
        /\ products = None

C1_Witness ==
    /\ pc = "done" /\ retries >= 2 /\ outcome = "exhausted"
    /\ AllRecoverable /\ gets = retries /\ sleeps = retries - 1

\* C2: once an attempt ended in a terminal error (HTTP 4xx/5xx, invalid JSON,
\* any other exception) fetch_data has returned None: that attempt is the last
\* get, every earlier attempt was recoverable, no sleep follows it and the loop
\* is never entered again.
C2_TerminalReturnsAtOnce ==
    (resps # <<>> /\ Last(resps).kind \in TerminalKinds) =>
        /\ pc \notin {"loop", "get", "backoff"}
        /\ outcome = "terminal"
        /\ products = None
        /\ \A i \in 1..(Len(resps) - 1) : resps[i].kind \in RecoverableKinds
        /\ gets = Len(resps)
        /\ sleeps = Len(resps) - 1
        /\ Last(events) = "get"

C2_Witness ==
    /\ pc = "done" /\ outcome = "terminal"
    /\ Len(resps) >= 2 /\ Len(resps) < retries
    /\ Last(resps).kind = "http_error"

\* C3: once an attempt received a 2xx JSON array, fetch_data has returned
\* exactly that list; the successful attempt k is the last get and the k-1
\* sleeps all lie before it.
C3_SuccessReturnsList ==
    (resps # <<>> /\ Last(resps).kind = "ok") =>
        /\ products = List(Last(resps).body)
        /\ outcome = "success"
        /\ pc \notin {"loop", "get", "backoff"}
        /\ gets = Len(resps)
        /\ sleeps = Len(resps) - 1
        /\ Alternating(events, Len(resps))

C3_Witness ==
    /\ outcome = "success" /\ Len(resps) >= 2 /\ sleeps = Len(resps) - 1
    /\ Len(products.items) >= 1

\* C4: with retries >= 1 fetch_data returns, and it returns on exactly one of
\* three paths: success (the last get gave the list), non-recoverable failure
\* (the last get ended in a terminal error), attempts exhausted (retries gets,
\* all of them recoverable errors).
C4_OnePath ==
    (entry = "main" /\ retries >= 1 /\ FetchReturned) =>
        /\ outcome \in {"success", "terminal", "exhausted"}
        /\ resps # <<>>
        /\ outcome = "success" <=> Last(resps).kind = "ok"
        /\ outcome = "success" <=> ~products.isNone
        /\ outcome = "terminal" <=> Last(resps).kind \in TerminalKinds
        /\ outcome = "exhausted" <=> (AllRecoverable /\ Len(resps) = retries)

C4_Terminates ==
    /\ (entry = "main" /\ retries >= 1) ~> FetchReturned
    /\ []C4_OnePath

C4_Witness ==
    /\ entry = "main" /\ pc = "fetch_ret" /\ retries >= 2
    /\ outcome = "success" /\ Len(resps) = retries

\* C5: after a run of the pipeline that opened the output file, the file holds
\* a data row for every fetched record or no data row at all.
C5_AllOrNothing ==
    (entry = "main" /\ pc = "done" /\ opened /\ ~fault) =>
        Len(file.rows) \in {0, Len(products.items)}

\* C6: main's exit code is 0 exactly when fetch_data succeeded and save_to_csv
\* returned True, and 1 otherwise, whatever --no-stats and show_statistics do.
C6_ExitCode ==
    (entry = "main" /\ pc = "done") =>
        /\ exitCode \in {0, 1}
        /\ exitCode = 0 <=> (outcome = "success" /\ saveRet = "true")

IsCleanStr(v, max) == v.t = "str" /\ v.lead = 0 /\ v.trail = 0 /\ v.len <= max

TypeCorrect(rec) ==
    /\ IsCleanStr(rec.title, TitleMax)
    /\ rec.price.t = "float"
    /\ rec.category.t = "str"
    /\ IsCleanStr(rec.description, DescMax)
    /\ rec.image.t = "str"
    /\ rec.rating.t \in {"int", "float"}
    /\ rec.rating_count.t = "int"

\* C7: validate_product never raises: every call returns a record whose seven
\* fields are present and type-correct.
C7_NeverFails ==
    clean.exc # "unset" => (clean.exc = "none" /\ TypeCorrect(clean.rec))

\* C8: every field absent from the raw record has its default in the record
\* validate_product returns, whatever the other fields hold: "N/A" for title,
\* category, description and image, 0 for price, rating and rating_count (the
\* last two also when rating is a dict without rate / count).
C8_Defaults ==
    clean.exc # "unset" =>
        /\ \A k \in {"title", "category", "description", "image"} :
              cur[k] = Absent => clean.rec[k] = NA
        /\ cur.price = Absent => clean.rec.price = PyFloat(0)
        /\ (cur.rating = Absent \/ (cur.rating.t = "map" /\ cur.rating.rate = Absent)) =>
              clean.rec.rating = PyInt(0)
        /\ (cur.rating = Absent \/ (cur.rating.t = "map" /\ cur.rating.count = Absent)) =>
              clean.rec.rating_count = PyInt(0)

\* the defaults do hold whenever validate_product returns
DefaultsWhenReturned == clean.exc = "none" => C8_Defaults

\* C9 as stated: inside fetch_data gets <= retries and sleeps <= max(retries-1, 0);
\* with retries <= 0 no get is issued and the return is the exhausted one.
C9_AsStated ==
    InFetch =>
        /\ gets <= retries
        /\ sleeps <= Max(retries - 1, 0)
        /\ (retries <= 0 /\ FetchReturned) =>
              (gets = 0 /\ outcome = "exhausted" /\ products = None)

\* C9 amended: inside fetch_data gets <= max(retries, 0) and
\* sleeps <= max(retries-1, 0); with retries <= 0 no get is issued and the
\* return is the exhausted one.
C9_Bounded ==
    InFetch =>
        /\ gets <= Max(retries, 0)
        /\ sleeps <= Max(retries - 1, 0)
        /\ (retries <= 0 /\ FetchReturned) =>
              (gets = 0 /\ outcome = "exhausted" /\ products = None)

C9_Witness ==
    /\ InFetch /\ retries < 0 /\ pc = "fetch_ret"
    /\ outcome = "exhausted" /\ gets = 0

\* C10: when fetch_data returns an empty list main does not call save_to_csv,
\* the output file is left as it was, no statistics are printed and the exit
\* code is 1; save_to_csv called with an empty list returns False without
\* opening the file.
C10_EmptyListFails ==
    /\ (entry = "main" /\ outcome = "success" /\ products.items = <<>>) =>
          /\ ~saveCalled /\ ~opened /\ file = file0 /\ ~statsPrinted
          /\ saveRet = "none"
          /\ exitCode # 0
          /\ pc = "done" => exitCode = 1
    /\ (entry = "save_to_csv" /\ products.items = <<>>) =>
          /\ ~opened /\ file = file0
          /\ saveRet # "true"
          /\ pc \in {"save_ret", "done"} => saveRet = "false"

C10_Witness ==
    /\ entry = "main" /\ pc = "done" /\ outcome = "success"
    /\ products = List(<<>>) /\ file0 = OldFile /\ exitCode = 1

====
